---- MODULE Spec2Model ----
(***************************************************************************)
(* Model of the time shims of src/src/shims/time.rs: clock_gettime,        *)
(* gettimeofday, GetSystemTimeAsFileTime and mach_absolute_time.           *)
(*                                                                         *)
(* u64 and u128 quantities exceed the range of TLC's integers, so they are *)
(* carried as little-endian sequences of 16-bit limbs (128 bits in all).   *)
(***************************************************************************)
EXTENDS Integers, Sequences, FiniteSets, TLC

----------------------------------------------------------------------------
(* u64 / u128 arithmetic on 16-bit limbs *)

LimbBits == 4 * 4
LimbBase == 2 ^ LimbBits
NLimbs == 128 \div LimbBits
HalfBase == 2 ^ 15

BigZero == [i \in 1..NLimbs |-> 0]

\* a host integer below 2^31 as a 128-bit quantity
FromInt(n) == [i \in 1..NLimbs |-> IF i = 1 THEN n % LimbBase
                                    ELSE IF i = 2 THEN n \div LimbBase ELSE 0]

\* 2^n as a 128-bit quantity, 0 <= n < 128
Pow2Big(n) == [i \in 1..NLimbs |-> IF i = (n \div LimbBits) + 1 THEN 2 ^ (n % LimbBits) ELSE 0]

RECURSIVE AddFrom(_, _, _, _)
AddFrom(a, b, i, c) ==
    IF i > NLimbs THEN <<>>
    ELSE LET s == a[i] + b[i] + c
         IN  <<s % LimbBase>> \o AddFrom(a, b, i + 1, s \div LimbBase)

\* a + b (wrapping at 2^128, which no value of the model reaches)
BigAdd(a, b) == AddFrom(a, b, 1, 0)

RECURSIVE SubFrom(_, _, _, _)
SubFrom(a, b, i, brw) ==
    IF i > NLimbs THEN <<>>
    ELSE LET s == a[i] - b[i] - brw
         IN  IF s < 0 THEN <<s + LimbBase>> \o SubFrom(a, b, i + 1, 1)
                      ELSE <<s>> \o SubFrom(a, b, i + 1, 0)

\* a - b for a >= b
BigSub(a, b) == SubFrom(a, b, 1, 0)

RECURSIVE LtFrom(_, _, _)
LtFrom(a, b, i) ==
    IF i = 0 THEN FALSE
    ELSE IF a[i] # b[i] THEN a[i] < b[i]
    ELSE LtFrom(a, b, i - 1)

BigLt(a, b) == LtFrom(a, b, NLimbs)
BigLeq(a, b) == ~BigLt(b, a)

RECURSIVE MulFrom(_, _, _, _)
MulFrom(a, m, i, c) ==
    IF i > NLimbs THEN <<>>
    ELSE LET p == a[i] * m + c
         IN  <<p % LimbBase>> \o MulFrom(a, m, i + 1, p \div LimbBase)

\* a * m for 0 <= m <= 2^15
MulSmall(a, m) == MulFrom(a, m, 1, 0)

\* a * m for 0 <= m < 2^30
BigMulInt(a, m) ==
    BigAdd(MulSmall(MulSmall(a, m \div HalfBase), HalfBase), MulSmall(a, m % HalfBase))

\* one 16-bit limb of a long division, four bits at a time: <<quotient limb, remainder>>
DivLimb(limb, d, rem) ==
    LET n3 == rem * 16 + (limb \div 4096)
        n2 == (n3 % d) * 16 + ((limb \div 256) % 16)
        n1 == (n2 % d) * 16 + ((limb \div 16) % 16)
        n0 == (n1 % d) * 16 + (limb % 16)
    IN  <<(n3 \div d) * 4096 + (n2 \div d) * 256 + (n1 \div d) * 16 + (n0 \div d), n0 % d>>

\* the quotient's limbs, most significant first
RECURSIVE DivFrom(_, _, _, _)
DivFrom(a, d, i, rem) ==
    IF i = 0 THEN <<>>
    ELSE LET p == DivLimb(a[i], d, rem)
         IN  <<p[1]>> \o DivFrom(a, d, i - 1, p[2])

\* floor(a / d) for 0 < d < 2^27
BigDivInt(a, d) ==
    LET q == DivFrom(a, d, NLimbs, 0)
    IN  [i \in 1..NLimbs |-> q[NLimbs + 1 - i]]

\* a & mask, for a mask every limb of which is 0 or 0xFFFF
BigAnd(a, mask) == [i \in 1..NLimbs |-> IF mask[i] = LimbBase - 1 THEN a[i] ELSE 0]

\* a >> 32
BigShr32(a) == [i \in 1..NLimbs |-> IF i + 2 <= NLimbs THEN a[i + 2] ELSE 0]

\* hi * 10^9 + lo, for writing down numbers above 2^31
Billions(hi, lo) == BigAdd(BigMulInt(FromInt(hi), 1000000000), FromInt(lo))

----------------------------------------------------------------------------
(* Values the shims obtain from the guest's libc and from std's Windows    *)
(* time module (eval_libc_i32, eval_libc, eval_windows_u64).               *)

CLOCK_REALTIME == 0
CLOCK_MONOTONIC == 1
EINVAL == 22
NANOS_PER_SEC == 1000000000
INTERVALS_PER_SEC == 10000000

\* 11_644_473_600 * INTERVALS_PER_SEC, the ticks from 1601-01-01 to 1970-01-01
INTERVALS_TO_UNIX_EPOCH ==
    BigMulInt(Billions(11, 644473600), INTERVALS_PER_SEC)

\* lines 100-101 of GetSystemTimeAsFileTime
NANOS_PER_INTERVAL == NANOS_PER_SEC \div INTERVALS_PER_SEC
SECONDS_TO_UNIX_EPOCH == BigDivInt(INTERVALS_TO_UNIX_EPOCH, INTERVALS_PER_SEC)

\* 0x00000000FFFFFFFF and 0xFFFFFFFF00000000
LOW_DWORD_MASK == BigSub(Pow2Big(32), FromInt(1))
HIGH_DWORD_MASK == BigSub(Pow2Big(64), Pow2Big(32))

\* u64::MAX + 1
U64_RANGE == Pow2Big(64)

----------------------------------------------------------------------------
(* std::time::Duration, SystemTime and Instant *)

\* Duration { secs: u64, nanos: u32 } with nanos < NANOS_PER_SEC
Duration(s, n) == [secs |-> s, nanos |-> n]

as_secs(d) == d.secs
subsec_nanos(d) == d.nanos
subsec_micros(d) == d.nanos \div 1000
as_nanos(d) == BigAdd(BigMulInt(d.secs, NANOS_PER_SEC), FromInt(d.nanos))

\* Duration::from_secs
from_secs(s) == Duration(s, 0)

\* Duration + Duration
DurationAdd(a, b) ==
    LET n == a.nanos + b.nanos
    IN  IF n >= NANOS_PER_SEC
        THEN Duration(BigAdd(BigAdd(a.secs, b.secs), FromInt(1)), n - NANOS_PER_SEC)
        ELSE Duration(BigAdd(a.secs, b.secs), n)

\* Instant::duration_since(earlier), for self >= earlier
duration_since(now, earlier) ==
    IF now.nanos >= earlier.nanos
    THEN Duration(BigSub(now.secs, earlier.secs), now.nanos - earlier.nanos)
    ELSE Duration(BigSub(BigSub(now.secs, earlier.secs), FromInt(1)),
                  now.nanos + NANOS_PER_SEC - earlier.nanos)

\* A SystemTime is its distance d from UNIX_EPOCH and the side it lies on.
SystemTime(before, d) == [before |-> before, d |-> d]

----------------------------------------------------------------------------
(* Bounds and the values the environment supplies *)

MaxWallJitter == 2
MaxMonoJitter == 1

\* spacing of the sampled wall-clock readings: half a Windows tick
WallJitterNs == NANOS_PER_INTERVAL \div 2

\* wall-clock readings at and after the Unix epoch, before jitter
WallBases ==
    { Duration(BigZero, 0),
      Duration(Billions(11, 644473600), 0),
      Duration(FromInt(2147483647), 999999900),
      Duration(Billions(1833, 29933770), 955161500) }

WallSamples ==
    { SystemTime(FALSE, DurationAdd(b, Duration(BigZero, k * WallJitterNs))) :
        b \in WallBases, k \in 0..MaxWallJitter }
    \cup { SystemTime(TRUE, Duration(BigZero, k * WallJitterNs)) : k \in 1..MaxWallJitter }

\* distances of the host monotonic clock from the time anchor, before jitter
MonoBases ==
    { Duration(BigZero, 999999999),
      Duration(FromInt(2147483647), 999999999),
      Duration(Billions(18, 446744073), 709551615) }

MonoOffsets ==
    { DurationAdd(b, Duration(BigZero, k)) : b \in MonoBases, k \in 0..MaxMonoJitter }

\* the Instant captured when the machine is created
AnchorInstant == Duration(FromInt(7), 999999999)

TargetOses == {"linux", "macos", "windows"}
PointerWidths == {32, 64}

\* guest operands: an i32 scalar that may be uninitialised, and pointers
ClkIdOps ==
    { [undef |-> FALSE, val |-> v] : v \in {CLOCK_REALTIME, CLOCK_MONOTONIC, 2, -1} }
    \cup { [undef |-> TRUE, val |-> 0] }
PtrOps == {"undef", "null", "readonly", "valid"}

NoVal == <<>>
FreshBuf == <<NoVal, NoVal>>

----------------------------------------------------------------------------
VARIABLES
    target_os,      \* tcx.sess.target.target.target_os
    isolation,      \* machine.communicate is off
    pointer_width,  \* width of the guest's time_t and c_long
    time_anchor,    \* machine.time_anchor
    host_mono,      \* what Instant::now() returns
    last_error,     \* the guest's errno
    buf,            \* the guest buffer handed to the latest call
    status,         \* "running" or "aborted"
    last,           \* the latest call: its operands and what it did
    mono_reported   \* nanoseconds reported by the latest monotonic query

vars == <<target_os, isolation, pointer_width, time_anchor, host_mono,
          last_error, buf, status, last, mono_reported>>

----------------------------------------------------------------------------
(* Outcomes of a shim: InterpResult, or a host panic.  Beside the result   *)
(* each shim reports what it did: the steps it took in order (trace), the  *)
(* host clock readings it took (now, instant), the duration it selected    *)
(* (dur), the fields it wrote (writes) and the errno it installed (err).   *)

NoResult ==
    [outcome |-> "none", why |-> "", ret |-> <<>>, ret64 |-> <<>>, trace |-> <<>>,
     now |-> <<>>, instant |-> <<>>, dur |-> <<>>, writes |-> <<>>, err |-> <<>>]

\* assert! failed: the interpreter itself panics
Panic(tr, why) == [NoResult EXCEPT !.outcome = "panic", !.why = why, !.trace = tr]

\* Err(..) propagated by `?`: interpretation stops
Fatal(tr, why) == [NoResult EXCEPT !.outcome = "fatal", !.why = why, !.trace = tr]

\* Ok(ret) of a shim returning i32
ReturnI32(tr, ret) == [NoResult EXCEPT !.outcome = "return", !.ret = <<ret>>, !.trace = tr]

\* the result of a shim that read SystemTime::now() / Instant::now()
ReadWall(res, wall) == [res EXCEPT !.now = <<wall>>]
ReadInstant(res, inst) == [res EXCEPT !.instant = <<inst>>]

----------------------------------------------------------------------------
(* Helpers of the evaluation context *)

assert_target_os(os) == target_os = os

check_no_isolation == ~isolation

\* read_scalar(op)?.to_i32()? and read_scalar(op)?.not_undef()?
read_scalar_ok(op) == ~op.undef
not_undef_ok(p) == p # "undef"

is_null(p) == p = "null"

\* deref_operand(op)?: the operand must be a pointer the guest may dereference
deref_operand_ok(p) == p \in {"readonly", "valid"}

libc_ty_layout(ty) ==
    CASE ty = "time_t" -> pointer_width
      [] ty = "c_long" -> pointer_width
      [] ty = "suseconds_t" -> 32

\* immty_from_int_checked: a value that is never negative fits a signed layout of
\* `bits` bits when it is below 2^(bits-1)
immty_from_int_checked(int, bits) == BigLt(int, Pow2Big(bits - 1))

\* immty_from_uint_checked
immty_from_uint_checked(int, bits) == BigLt(int, Pow2Big(bits))

\* write_packed_immediates: the fields in order, all of them or none
write_packed_immediates(p, imms) ==
    IF p = "valid"
    THEN [ok |-> TRUE, writes |-> imms, trace |-> [i \in 1..Len(imms) |-> "write_field"]]
    ELSE [ok |-> FALSE, writes |-> <<>>, trace |-> <<>>]

----------------------------------------------------------------------------
(* src/src/shims/time.rs *)

system_time_to_duration_clamped(time) ==
    IF time.before THEN [ok |-> TRUE, d |-> Duration(BigZero, 0)]
    ELSE [ok |-> TRUE, d |-> time.d]

system_time_to_duration(time) ==
    IF time.before THEN [ok |-> FALSE, d |-> Duration(BigZero, 0)]
    ELSE [ok |-> TRUE, d |-> time.d]

clock_gettime_marshal_micros(tr, duration, tp_op) ==
    LET tv_sec == as_secs(duration)
        tv_nsec == FromInt(subsec_micros(duration))
    IN  IF ~immty_from_int_checked(tv_sec, libc_ty_layout("time_t"))
        THEN Fatal(tr, "does_not_fit")
        ELSE LET w == write_packed_immediates(tp_op, <<tv_sec, tv_nsec>>)
             IN  IF ~w.ok THEN Fatal(tr \o w.trace, "write_failed")
                 ELSE [ReturnI32(tr \o w.trace, 0) EXCEPT
                           !.dur = <<duration>>, !.writes = w.writes]

clock_gettime_marshal_eager(tr, duration, tp_op) ==
    LET tv_sec == as_secs(duration)
        tv_nsec == FromInt(subsec_nanos(duration))
        w2 == write_packed_immediates(tp_op, <<tv_nsec>>)
    IN  IF ~immty_from_int_checked(tv_nsec, libc_ty_layout("c_long"))
        THEN Fatal(tr, "does_not_fit")
        ELSE IF ~w2.ok THEN Fatal(tr, "write_failed")
        ELSE IF ~immty_from_int_checked(tv_sec, libc_ty_layout("time_t"))
        THEN [Fatal(tr \o w2.trace, "does_not_fit") EXCEPT !.writes = <<NoVal, tv_nsec>>]
        ELSE [ReturnI32(tr \o w2.trace \o w2.trace, 0) EXCEPT
                  !.dur = <<duration>>, !.writes = <<tv_sec, tv_nsec>>]

\* lines 43-53: decompose, convert both fields, marshal, Ok(0)
clock_gettime_marshal(tr, duration, tp_op) ==
    LET tv_sec == as_secs(duration)
        tv_nsec == FromInt(subsec_nanos(duration))
    IN  IF ~immty_from_int_checked(tv_sec, libc_ty_layout("time_t"))
        THEN Fatal(tr, "does_not_fit")
        ELSE IF ~immty_from_int_checked(tv_nsec, libc_ty_layout("c_long"))
        THEN Fatal(tr, "does_not_fit")
        ELSE LET w == write_packed_immediates(tp_op, <<tv_sec, tv_nsec>>)
             IN  IF ~w.ok THEN Fatal(tr \o w.trace, "write_failed")
                 ELSE [ReturnI32(tr \o w.trace, 0) EXCEPT
                           !.dur = <<duration>>, !.writes = w.writes]

clock_gettime_select_any_monotonic(tr, clk_id, tp_op, wall) ==
    IF clk_id = CLOCK_REALTIME
    THEN LET t5 == Append(tr, "SystemTime::now")
             r == system_time_to_duration(wall)
         IN  IF ~r.ok THEN ReadWall(Fatal(t5, "pre_epoch"), wall)
             ELSE ReadWall(clock_gettime_marshal(t5, r.d, tp_op), wall)
    ELSE ReadInstant(clock_gettime_marshal(Append(tr, "Instant::now"),
                                           duration_since(host_mono, time_anchor), tp_op),
                     host_mono)

\* lines 31-53: select the clock by clk_id, or EINVAL and -1
clock_gettime_select(tr, clk_id, tp_op, wall) ==
    IF clk_id = CLOCK_REALTIME
    THEN LET t5 == Append(tr, "SystemTime::now")
             r == system_time_to_duration(wall)
         IN  IF ~r.ok THEN ReadWall(Fatal(t5, "pre_epoch"), wall)
             ELSE ReadWall(clock_gettime_marshal(t5, r.d, tp_op), wall)
    ELSE IF clk_id = CLOCK_MONOTONIC
    THEN ReadInstant(clock_gettime_marshal(Append(tr, "Instant::now"),
                                           duration_since(host_mono, time_anchor), tp_op),
                     host_mono)
    ELSE [ReturnI32(Append(tr, "set_last_error"), -1) EXCEPT !.err = <<EINVAL>>]

clock_gettime(clk_id_op, tp_op, wall) ==
    LET t1 == <<"assert_target_os">>
        t2 == Append(t1, "check_no_isolation")
        t3 == Append(t2, "read_scalar")
        t4 == Append(t3, "deref_operand")
    IN  IF ~assert_target_os("linux") THEN Panic(t1, "target_os")
        ELSE IF ~check_no_isolation THEN Fatal(t2, "isolation")
        ELSE IF ~read_scalar_ok(clk_id_op) THEN Fatal(t3, "undef")
        ELSE IF ~deref_operand_ok(tp_op) THEN Fatal(t4, "pointer")
        ELSE clock_gettime_select(t4, clk_id_op.val, tp_op, wall)

\* lines 74-87: dereference tv, read the wall clock, marshal (tv_sec, tv_usec)
gettimeofday_write(tr, tv_op, wall) ==
    LET t4 == Append(tr, "deref_operand")
        t5 == Append(t4, "SystemTime::now")
    IN  IF ~deref_operand_ok(tv_op) THEN Fatal(t4, "pointer")
        ELSE LET r == system_time_to_duration(wall)
             IN  IF ~r.ok THEN ReadWall(Fatal(t5, "pre_epoch"), wall)
                 ELSE LET duration == r.d
                          tv_sec == as_secs(duration)
                          tv_usec == FromInt(subsec_micros(duration))
                      IN  IF ~immty_from_int_checked(tv_sec, libc_ty_layout("time_t"))
                          THEN ReadWall(Fatal(t5, "does_not_fit"), wall)
                          ELSE IF ~immty_from_int_checked(tv_usec, libc_ty_layout("suseconds_t"))
                          THEN ReadWall(Fatal(t5, "does_not_fit"), wall)
                          ELSE LET w == write_packed_immediates(tv_op, <<tv_sec, tv_usec>>)
                               IN  IF ~w.ok
                                   THEN ReadWall(Fatal(t5 \o w.trace, "write_failed"), wall)
                                   ELSE ReadWall([ReturnI32(t5 \o w.trace, 0) EXCEPT
                                                      !.dur = <<duration>>,
                                                      !.writes = w.writes], wall)

gettimeofday_deref_first(tv_op, tz_op, wall) ==
    LET t1 == <<"assert_target_os">>
        t2 == Append(t1, "check_no_isolation")
        t3 == Append(t2, "deref_operand")
        t4 == Append(t3, "read_scalar")
    IN  IF ~assert_target_os("macos") THEN Panic(t1, "target_os")
        ELSE IF ~check_no_isolation THEN Fatal(t2, "isolation")
        ELSE IF ~deref_operand_ok(tv_op) THEN Fatal(t3, "pointer")
        ELSE IF ~not_undef_ok(tz_op) THEN Fatal(t4, "undef")
        ELSE IF ~is_null(tz_op)
        THEN [ReturnI32(Append(t4, "set_last_error"), -1) EXCEPT !.err = <<EINVAL>>]
        ELSE gettimeofday_write(t2, tv_op, wall)

gettimeofday(tv_op, tz_op, wall) ==
    LET t1 == <<"assert_target_os">>
        t2 == Append(t1, "check_no_isolation")
        t3 == Append(t2, "read_scalar")
    IN  IF ~assert_target_os("macos") THEN Panic(t1, "target_os")
        ELSE IF ~check_no_isolation THEN Fatal(t2, "isolation")
        ELSE IF ~not_undef_ok(tz_op) THEN Fatal(t3, "undef")
        ELSE IF ~is_null(tz_op)
        THEN [ReturnI32(Append(t3, "set_last_error"), -1) EXCEPT !.err = <<EINVAL>>]
        ELSE gettimeofday_write(t3, tv_op, wall)

filetime_ticks_no_offset(unix) == BigDivInt(as_nanos(unix), NANOS_PER_INTERVAL)

\* lines 103-104: the wall-clock duration moved to the Windows epoch, in 100 ns ticks
\* (u128, before the conversion to u64)
filetime_ticks(unix) ==
    BigDivInt(as_nanos(DurationAdd(unix, from_secs(SECONDS_TO_UNIX_EPOCH))),
              NANOS_PER_INTERVAL)

filetime_words_high_first(duration_ticks) ==
    <<BigShr32(BigAnd(duration_ticks, HIGH_DWORD_MASK)),
      BigAnd(duration_ticks, LOW_DWORD_MASK)>>

\* lines 107-113: <<dwLowDateTime, dwHighDateTime>>
filetime_words(duration_ticks) ==
    <<BigAnd(duration_ticks, LOW_DWORD_MASK),
      BigShr32(BigAnd(duration_ticks, HIGH_DWORD_MASK))>>

\* lines 97-115: everything after the two gates
filetime_write(tr, LPFILETIME_op, wall) ==
    LET t3 == Append(tr, "SystemTime::now")
        t4 == Append(t3, "deref_operand")
        r == system_time_to_duration(wall)
    IN  IF ~r.ok THEN ReadWall(Fatal(t3, "pre_epoch"), wall)
        ELSE LET ticks == filetime_ticks(r.d)
             IN  IF ~BigLt(ticks, U64_RANGE)
                 THEN ReadWall(Fatal(t3, "tick_overflow"), wall)
                 ELSE LET imms == filetime_words(ticks)
                      IN  IF ~immty_from_uint_checked(imms[1], 32)
                             \/ ~immty_from_uint_checked(imms[2], 32)
                          THEN ReadWall(Fatal(t3, "does_not_fit"), wall)
                          ELSE IF ~deref_operand_ok(LPFILETIME_op)
                          THEN ReadWall(Fatal(t4, "pointer"), wall)
                          ELSE LET w == write_packed_immediates(LPFILETIME_op, imms)
                               IN  IF ~w.ok
                                   THEN ReadWall(Fatal(t4 \o w.trace, "write_failed"), wall)
                                   ELSE ReadWall([NoResult EXCEPT
                                                      !.outcome = "return",
                                                      !.trace = t4 \o w.trace,
                                                      !.dur = <<r.d>>,
                                                      !.writes = w.writes], wall)

GetSystemTimeAsFileTime_ungated(LPFILETIME_op, wall) ==
    LET t1 == <<"assert_target_os">>
    IN  IF ~assert_target_os("windows") THEN Panic(t1, "target_os")
        ELSE filetime_write(t1, LPFILETIME_op, wall)

GetSystemTimeAsFileTime(LPFILETIME_op, wall) ==
    LET t1 == <<"assert_target_os">>
        t2 == Append(t1, "check_no_isolation")
    IN  IF ~assert_target_os("windows") THEN Panic(t1, "target_os")
        ELSE IF ~check_no_isolation THEN Fatal(t2, "isolation")
        ELSE filetime_write(t2, LPFILETIME_op, wall)

\* lines 126-128: nanoseconds since the anchor, as u64
mach_absolute_time_value(tr) ==
    LET t3 == Append(tr, "Instant::now")
        duration == duration_since(host_mono, time_anchor)
        nanos == as_nanos(duration)
    IN  IF ~BigLt(nanos, U64_RANGE) THEN ReadInstant(Fatal(t3, "nanos_overflow"), host_mono)
        ELSE ReadInstant([NoResult EXCEPT !.outcome = "return", !.ret64 = <<nanos>>,
                              !.trace = t3, !.dur = <<duration>>], host_mono)

mach_absolute_time_gate_first ==
    LET t1 == <<"check_no_isolation">>
        t2 == Append(t1, "assert_target_os")
    IN  IF ~check_no_isolation THEN Fatal(t1, "isolation")
        ELSE IF ~assert_target_os("macos") THEN Panic(t2, "target_os")
        ELSE mach_absolute_time_value(t2)

mach_absolute_time_unanchored ==
    LET t1 == <<"assert_target_os">>
        t2 == Append(t1, "check_no_isolation")
        t3 == Append(t2, "Instant::now")
    IN  IF ~assert_target_os("macos") THEN Panic(t1, "target_os")
        ELSE IF ~check_no_isolation THEN Fatal(t2, "isolation")
        ELSE ReadInstant([NoResult EXCEPT !.outcome = "return",
                              !.ret64 = <<as_nanos(host_mono)>>,
                              !.trace = t3, !.dur = <<host_mono>>], host_mono)

mach_absolute_time ==
    LET t1 == <<"assert_target_os">>
        t2 == Append(t1, "check_no_isolation")
    IN  IF ~assert_target_os("macos") THEN Panic(t1, "target_os")
        ELSE IF ~check_no_isolation THEN Fatal(t2, "isolation")
        ELSE mach_absolute_time_value(t2)

----------------------------------------------------------------------------
(* The machine: one action per shim, and the host clock moving on *)

NoClk == [undef |-> TRUE, val |-> 0]

Init ==
    /\ target_os \in TargetOses
    /\ isolation \in BOOLEAN
    /\ pointer_width \in PointerWidths
    /\ time_anchor = AnchorInstant
    /\ host_mono = time_anchor
    /\ last_error = 0
    /\ buf = FreshBuf
    /\ status = "running"
    /\ last = [name |-> "none", clk |-> NoClk, ptr |-> "none", tz |-> "none", res |-> NoResult]
    /\ mono_reported = <<>>

\* the buffer the guest handed in, with the fields the call wrote
Marshalled(writes) == [i \in 1..2 |-> IF i <= Len(writes) THEN writes[i] ELSE NoVal]

\* what a successful monotonic query told the guest, in nanoseconds
MonoValue(name, clk, res) ==
    IF res.outcome # "return" THEN <<>>
    ELSE IF name = "mach_absolute_time" THEN res.ret64
    ELSE IF name = "clock_gettime" /\ ~clk.undef /\ clk.val = CLOCK_MONOTONIC /\ res.ret = <<0>>
    THEN <<BigAdd(BigMulInt(res.writes[1], NANOS_PER_SEC), res.writes[2])>>
    ELSE <<>>

Finish(name, clk, ptr, tz, res) ==
    /\ last' = [name |-> name, clk |-> clk, ptr |-> ptr, tz |-> tz, res |-> res]
    /\ buf' = Marshalled(res.writes)
    /\ last_error' = IF res.err # <<>> THEN res.err[1] ELSE last_error
    /\ status' = IF res.outcome = "return" THEN "running" ELSE "aborted"
    /\ LET v == MonoValue(name, clk, res)
       IN  mono_reported' = IF v # <<>> THEN v ELSE mono_reported
    /\ UNCHANGED <<target_os, isolation, pointer_width, time_anchor, host_mono>>

\* A call that never reads the wall clock behaves the same whatever the clock
\* shows, so one reading stands for all of them.
ReadsWall(res) == res.now # <<>>
FirstWall == SystemTime(FALSE, Duration(BigZero, 0))

CallClockGettime ==
    /\ status = "running"
    /\ \E c \in ClkIdOps, p \in PtrOps, w \in WallSamples :
           LET res == clock_gettime(c, p, w)
           IN  /\ ReadsWall(res) \/ w = FirstWall
               /\ Finish("clock_gettime", c, p, "none", res)

CallGettimeofday ==
    /\ status = "running"
    /\ \E tv \in PtrOps, tz \in PtrOps, w \in WallSamples :
           LET res == gettimeofday(tv, tz, w)
           IN  /\ ReadsWall(res) \/ w = FirstWall
               /\ Finish("gettimeofday", NoClk, tv, tz, res)

CallGetSystemTimeAsFileTime ==
    /\ status = "running"
    /\ \E p \in PtrOps, w \in WallSamples :
           LET res == GetSystemTimeAsFileTime(p, w)
           IN  /\ ReadsWall(res) \/ w = FirstWall
               /\ Finish("GetSystemTimeAsFileTime", NoClk, p, "none", res)

CallMachAbsoluteTime ==
    /\ status = "running"
    /\ Finish("mach_absolute_time", NoClk, "none", "none", mach_absolute_time)

\* the host's monotonic clock never runs backwards
AdvanceMono ==
    /\ status = "running"
    /\ \E off \in MonoOffsets :
           LET t == DurationAdd(time_anchor, off)
           IN  /\ \/ BigLt(host_mono.secs, t.secs)
                  \/ host_mono.secs = t.secs /\ host_mono.nanos < t.nanos
               /\ host_mono' = t
    /\ UNCHANGED <<target_os, isolation, pointer_width, time_anchor,
                   last_error, buf, status, last, mono_reported>>

Next ==
    \/ CallClockGettime
    \/ CallGettimeofday
    \/ CallGetSystemTimeAsFileTime
    \/ CallMachAbsoluteTime
    \/ AdvanceMono

Spec == Init /\ [][Next]_vars

----------------------------------------------------------------------------
(* Properties *)

Res == last.res
Called == last.name # "none"

Has(tr, e) == \E i \in DOMAIN tr : tr[i] = e
Count(tr, e) == Cardinality({i \in DOMAIN tr : tr[i] = e})

ReadsHostClock == Has(Res.trace, "SystemTime::now") \/ Has(Res.trace, "Instant::now")
                  \/ Res.now # <<>> \/ Res.instant # <<>>
Untouched == Res.writes = <<>> /\ buf = FreshBuf /\ ~Has(Res.trace, "write_field")
NoErrno == Res.err = <<>> /\ ~Has(Res.trace, "set_last_error")

\* the one platform each call belongs to
CallOs(name) ==
    CASE name = "clock_gettime" -> "linux"
      [] name = "gettimeofday" -> "macos"
      [] name = "mach_absolute_time" -> "macos"
      [] name = "GetSystemTimeAsFileTime" -> "windows"
      [] OTHER -> "none"

\* x << 32
Shl32(x) == [i \in 1..NLimbs |-> IF i <= 2 THEN 0 ELSE x[i - 2]]

UnknownClkId ==
    /\ last.name = "clock_gettime" /\ target_os = "linux" /\ ~isolation
    /\ ~last.clk.undef
    /\ last.clk.val \notin {CLOCK_REALTIME, CLOCK_MONOTONIC}

\* C1 as stated: with target Linux and isolation off, clock_gettime with a clk_id
\* that is neither CLOCK_REALTIME nor CLOCK_MONOTONIC never writes the output
\* buffer, reads no host clock, sets the guest errno to EINVAL and returns -1.
C1_UnknownClkIdAlwaysEinval ==
    UnknownClkId =>
        /\ Untouched /\ ~ReadsHostClock
        /\ Res.outcome = "return" /\ Res.ret = <<-1>> /\ last_error = EINVAL

\* C1 amended: the same, provided the tp operand can be dereferenced; tp is
\* dereferenced before clk_id is examined, so with a tp that cannot be the call
\* stops interpretation instead, still without a write, an errno or a clock read.
C1_UnknownClkIdEinvalAfterDeref ==
    UnknownClkId =>
        /\ Untouched /\ ~ReadsHostClock
        /\ IF deref_operand_ok(last.ptr)
           THEN /\ Res.outcome = "return" /\ Res.ret = <<-1>>
                /\ Res.err = <<EINVAL>> /\ last_error = EINVAL
           ELSE /\ Res.outcome = "fatal" /\ Res.why = "pointer"
                /\ NoErrno /\ Res.ret = <<>>

C1_Witness ==
    UnknownClkId /\ last.ptr = "valid" /\ Res.ret = <<-1>> /\ last_error = EINVAL

NonNullTz ==
    /\ last.name = "gettimeofday" /\ target_os = "macos" /\ ~isolation
    /\ last.tz \in {"readonly", "valid"}

\* C2: with target macOS and isolation off, gettimeofday with a non-null tz
\* returns -1 and sets errno to EINVAL, and it does so right after reading tz:
\* tv is not dereferenced, the wall clock is not read, no field is written.
C2_NonNullTzRejectedFirst ==
    NonNullTz =>
        /\ Res.outcome = "return" /\ Res.ret = <<-1>>
        /\ Res.err = <<EINVAL>> /\ last_error = EINVAL
        /\ Untouched /\ ~ReadsHostClock
        /\ Res.trace = <<"assert_target_os", "check_no_isolation", "read_scalar",
                         "set_last_error">>

C2_Witness == NonNullTz /\ last.ptr = "null" /\ Res.ret = <<-1>>

\* C3: under isolation every one of the four calls fails before any host clock is
\* read, whatever its operands, writes nothing and installs no errno; on its own
\* platform the failure is the isolation violation, raised right after the
\* platform check.
C3_IsolationBeforeClock ==
    (isolation /\ Called) =>
        /\ Res.outcome # "return" /\ status = "aborted"
        /\ ~ReadsHostClock /\ Untouched /\ NoErrno /\ last_error = 0
        /\ CallOs(last.name) = target_os =>
               /\ Res.outcome = "fatal" /\ Res.why = "isolation"
               /\ Res.trace = <<"assert_target_os", "check_no_isolation">>

C3_Witness ==
    /\ isolation /\ last.name = "GetSystemTimeAsFileTime" /\ last.ptr = "valid"
    /\ Res.why = "isolation"

\* C4: a call made on a platform other than its own is rejected by the very
\* first step, before the isolation gate, any operand and any clock: the
\* interpreter aborts, no errno is installed, nothing is returned or written.
C4_PlatformCheckedFirst ==
    (Called /\ CallOs(last.name) # target_os) =>
        /\ Res.outcome = "panic" /\ Res.why = "target_os" /\ status = "aborted"
        /\ Res.trace = <<"assert_target_os">>
        /\ ~ReadsHostClock /\ Untouched /\ NoErrno
        /\ Res.ret = <<>> /\ Res.ret64 = <<>>

C4_Witness ==
    /\ isolation /\ target_os = "windows" /\ last.name = "mach_absolute_time"
    /\ Res.outcome = "panic"

\* C5: every successful monotonic query (clock_gettime with CLOCK_MONOTONIC,
\* mach_absolute_time) reports the host's monotonic reading minus the time
\* anchor, a value that is not negative and not below the value the previous
\* query reported; no step changes the anchor.
C5_MonotonicNonDecreasing ==
    /\ [][ (last' # last /\ MonoValue(last'.name, last'.clk, last'.res) # <<>>) =>
              /\ mono_reported' = MonoValue(last'.name, last'.clk, last'.res)
              /\ BigAdd(as_nanos(time_anchor), mono_reported'[1]) = as_nanos(host_mono)
              /\ mono_reported # <<>> => BigLeq(mono_reported[1], mono_reported'[1])
              /\ last'.name = "clock_gettime" =>
                     BigLt(buf'[1], Pow2Big(pointer_width - 1)) ]_vars
    /\ [][time_anchor' = time_anchor]_vars

C5_Witness ==
    /\ last.name = "mach_absolute_time" /\ Res.outcome = "return"
    /\ mono_reported = Res.ret64 /\ mono_reported[1] # BigZero
    /\ host_mono = Res.instant[1]

FiletimeDone == last.name = "GetSystemTimeAsFileTime" /\ Res.outcome = "return"

\* d + 11,644,473,600 s, in nanoseconds
WindowsEpochNanos(d) ==
    BigAdd(as_nanos(d), BigMulInt(Billions(11, 644473600), 1000000000))

\* C6: for a wall-clock duration d since the Unix epoch, GetSystemTimeAsFileTime
\* writes low word then high word with high * 2^32 + low the whole number of
\* 100 ns ticks in d + 11,644,473,600 s; when that number needs more than 64
\* bits, and only then, the call fails with the tick overflow and writes nothing.
C6_FiletimeTicks ==
    /\ FiletimeDone =>
           LET low == buf[1]
               high == buf[2]
               T == BigAdd(Shl32(high), low)
               N == WindowsEpochNanos(Res.now[1].d)
           IN  /\ Res.writes = <<low, high>>
               /\ Count(Res.trace, "write_field") = 2
               /\ BigLt(low, Pow2Big(32)) /\ BigLt(high, Pow2Big(32))
               /\ BigLeq(BigMulInt(T, 100), N)
               /\ BigLt(N, BigAdd(BigMulInt(T, 100), FromInt(100)))
    /\ (last.name = "GetSystemTimeAsFileTime" /\ Res.now # <<>> /\ ~Res.now[1].before) =>
           /\ (Res.outcome = "fatal" /\ Res.why = "tick_overflow")
                  <=> BigLeq(BigMulInt(Pow2Big(64), 100), WindowsEpochNanos(Res.now[1].d))
           /\ Res.why = "tick_overflow" => Untouched
           /\ (Res.why # "tick_overflow" /\ last.ptr = "valid") => Res.outcome = "return"

C6_Witness == FiletimeDone /\ Res.now[1].d.nanos = 50 /\ buf[2] # BigZero

AtWindowsOffset ==
    FiletimeDone /\ Res.now = <<SystemTime(FALSE, Duration(Billions(11, 644473600), 0))>>

\* C7 as stated: a wall clock exactly 11,644,473,600 s after the Unix epoch
\* gives tick count 0: low word 0 and high word 0.
C7_OffsetGivesZero == AtWindowsOffset => buf = <<BigZero, BigZero>>

\* C7 amended: a wall clock exactly 11,644,473,600 s after the Unix epoch gives
\* tick count 232,889,472,000,000,000 (the offset is added, not subtracted):
\* low word 2,860,318,720 and high word 54,223,805.
C7_OffsetGivesTwiceOffset ==
    AtWindowsOffset => buf = <<Billions(2, 860318720), FromInt(54223805)>>

C7_Witness == AtWindowsOffset /\ last.ptr = "valid"

ClockGettimeOk ==
    last.name = "clock_gettime" /\ Res.outcome = "return" /\ Res.ret = <<0>>

\* C8: a clock_gettime that succeeds returns 0 and has written tv_sec then
\* tv_nsec with tv_nsec below 1,000,000,000 and tv_sec * 1,000,000,000 + tv_nsec
\* exactly the selected duration in nanoseconds: the wall clock's distance from
\* the Unix epoch for CLOCK_REALTIME, the monotonic clock's distance from the
\* anchor for CLOCK_MONOTONIC.
C8_TimespecRoundTrip ==
    /\ (last.name = "clock_gettime" /\ Res.writes # <<>>) => ClockGettimeOk
    /\ ClockGettimeOk =>
           LET tv_sec == buf[1]
               tv_nsec == buf[2]
               total == BigAdd(BigMulInt(tv_sec, 1000000000), tv_nsec)
           IN  /\ Res.writes = <<tv_sec, tv_nsec>>
               /\ Count(Res.trace, "write_field") = 2
               /\ BigLt(tv_nsec, FromInt(1000000000))
               /\ IF last.clk.val = CLOCK_REALTIME
                  THEN /\ Res.instant = <<>> /\ Res.now # <<>> /\ ~Res.now[1].before
                       /\ total = as_nanos(Res.now[1].d)
                  ELSE /\ last.clk.val = CLOCK_MONOTONIC
                       /\ Res.now = <<>> /\ Res.instant # <<>>
                       /\ BigAdd(as_nanos(time_anchor), total) = as_nanos(Res.instant[1])

C8_Witness ==
    /\ ClockGettimeOk /\ last.clk.val = CLOCK_REALTIME
    /\ Res.now[1].d.nanos = 999999950 /\ buf[1] # BigZero

\* C9: clock_gettime, gettimeofday and GetSystemTimeAsFileTime write both fields
\* of the guest buffer or neither, whatever goes wrong: a value that does not
\* fit its field, a pointer that cannot be dereferenced or written.
C9_BothFieldsOrNone ==
    last.name \in {"clock_gettime", "gettimeofday", "GetSystemTimeAsFileTime"} =>
        /\ Len(Res.writes) \in {0, 2}
        /\ Count(Res.trace, "write_field") = Len(Res.writes)
        /\ (buf[1] = NoVal) <=> (buf[2] = NoVal)
        /\ Len(Res.writes) = 2 => (Res.writes[1] # NoVal /\ Res.writes[2] # NoVal)
        /\ (Res.outcome # "return" \/ Res.ret = <<-1>>) => Untouched

C9_Witness ==
    /\ last.name = "clock_gettime" /\ last.ptr = "valid"
    /\ Res.why = "does_not_fit" /\ buf = FreshBuf

GuestVisibleFailure ==
    Res.err # <<>> \/ Res.ret = <<-1>> \/ Has(Res.trace, "set_last_error")

C10_Outcomes ==
    Called =>
        /\ Res.outcome \in {"return", "fatal", "panic"}
        /\ GuestVisibleFailure =>
               /\ Res.outcome = "return" /\ Res.ret = <<-1>> /\ Res.err = <<EINVAL>>
               /\ \/ last.name = "clock_gettime" /\ ~last.clk.undef
                     /\ last.clk.val \notin {CLOCK_REALTIME, CLOCK_MONOTONIC}
                  \/ last.name = "gettimeofday" /\ last.tz \notin {"null", "undef"}
        /\ Res.outcome \in {"fatal", "panic"} =>
               /\ status = "aborted" /\ NoErrno /\ Untouched
               /\ Res.ret = <<>> /\ Res.ret64 = <<>>
        /\ (Res.now # <<>> /\ Res.now[1].before) =>
               Res.outcome = "fatal" /\ Res.why = "pre_epoch"
        /\ Res.why \in {"pre_epoch", "tick_overflow", "nanos_overflow", "isolation"} =>
               Res.outcome = "fatal"

\* C10: the only failures the guest can see (errno installed, -1 returned) are an
\* unrecognised clk_id in clock_gettime and a non-null tz in gettimeofday.  Every
\* other failure (a wall clock before the Unix epoch, never clamped to zero;
\* tick overflow; nanosecond overflow; isolation) ends the run: errno keeps its
\* value, nothing is returned, the guest buffer is not written.
C10_OnlyTwoGuestVisibleFailures ==
    /\ []C10_Outcomes
    /\ [][status' = "aborted" => (last_error' = last_error /\ buf' = FreshBuf)]_vars

C10_Witness == last.name = "gettimeofday" /\ Res.why = "pre_epoch" /\ last_error = EINVAL

====
